---- MODULE Spec2Model ----
(***************************************************************************)
(* Client-side OAuth2 login flow of the personal_assistant front end        *)
(* (src/src/auth.rs, src/src/main.rs).                                      *)
(*                                                                         *)
(* The browser holds two tabs of the same origin.  Every tab has its own   *)
(* location, its own component state (app_state, auth_state, messages) and *)
(* its own spawned tasks; localStorage (the key "oauth_state") is shared.  *)
(* Every event handler of the page runs to completion before the next one  *)
(* starts; a spawned task is resumed as a separate step.  In Spec the      *)
(* storage works (storageOk stays TRUE) and generate_state never repeats a *)
(* value.                                                                  *)
(***************************************************************************)
EXTENDS Naturals, Sequences, FiniteSets, TLC

(* ------------------------------ bounds --------------------------------- *)
\* number of nonces generate_state may hand out in one behaviour
MaxNonce == 2
\* number of callbacks (each with a code of its own) that may be delivered
MaxCodes == 2
\* number of messages posted in one behaviour
MaxPosts == 1

(* ------------------------------ values --------------------------------- *)
Tabs == {"A", "B"}

\* Option<T>: None is the empty sequence, Some(x) a sequence of length one.
None == <<>>
Some(x) == <<x>>

\* Uuid::new_v4(): the i-th value generated; distinct for distinct i.
Nonce(i) == "n" \o ToString(i)
\* the authorization code of the i-th callback delivered
Code(i) == "c" \o ToString(i)
\* a state value that no login initiation of this browser has generated
Bogus == "xyz"

\* enum AppState; msg is the String carried by AppState::Error
AppCheckingAuth == [tag |-> "CheckingAuth", msg |-> ""]
AppUnauthenticated == [tag |-> "Unauthenticated", msg |-> ""]
AppAuthenticated == [tag |-> "Authenticated", msg |-> ""]
AppLoading == [tag |-> "Loading", msg |-> ""]
AppError(e) == [tag |-> "Error", msg |-> e]

\* struct UserInfo, two values the backend may return
User1 == [id |-> 1, google_id |-> "g1", email |-> "e@x.com", name |-> "E"]
User2 == [id |-> 2, google_id |-> "g2", email |-> "f@x.com", name |-> "F"]

\* AuthState::default()
AuthStateDefault == [token |-> None, user |-> None]

\* AuthState::is_authenticated
IsAuthenticated(auth) == auth.token # None

(* ------------------------------ location ------------------------------- *)
\* A location is the site it points to and its query string, a sequence of
\* <<key, value>> pairs.
AppUrl(q) == [site |-> "app", query |-> q]

\* UrlSearchParams::get: the first value stored under key k
RECURSIVE ParamGet(_, _)
ParamGet(q, k) ==
    IF q = <<>> THEN None
    ELSE IF Head(q)[1] = k THEN Some(Head(q)[2])
    ELSE ParamGet(Tail(q), k)

\* the address initiate_oauth_flow navigates to
AuthUrl(state) ==
    [site |-> "provider",
     query |-> << <<"client_id", "CLIENT_ID">>,
                  <<"redirect_uri", "REDIRECT_URI">>,
                  <<"response_type", "code">>,
                  <<"scope", "openid email profile">>,
                  <<"state", state>>,
                  <<"access_type", "online">> >>]

\* faulty variant: a missing state parameter is read as the empty string
ParseOauthCallback_StateOptional(u) ==
    IF u.query = <<>> THEN None
    ELSE LET code == ParamGet(u.query, "code")
             state == ParamGet(u.query, "state")
         IN  IF code = None THEN None
             ELSE IF state = None THEN Some(<<code[1], "">>)
             ELSE Some(<<code[1], state[1]>>)

\* parse_oauth_callback on location u: None, or Some(<<code, state>>)
ParseOauthCallback(u) ==
    IF u.query = <<>> THEN None
    ELSE LET code == ParamGet(u.query, "code")
             state == ParamGet(u.query, "state")
         IN  IF code = None THEN None
             ELSE IF state = None THEN None
             ELSE Some(<<code[1], state[1]>>)

\* clear_url_params: history.replaceState with the bare pathname
ClearUrlParams(u) == [u EXCEPT !.query = <<>>]

(* ------------------------------ storage -------------------------------- *)
\* st is the value under "oauth_state" (None: key absent); ok tells whether
\* localStorage is usable.  A failing call is swallowed.

\* faulty variant: a nonce already stored is not overwritten
SaveState_KeepFirst(st, ok, state) == IF ok /\ st = None THEN Some(state) ELSE st

\* save_state
SaveState(st, ok, state) == IF ok THEN Some(state) ELSE st

\* faulty variant: a failed read yields the value last stored
GetSavedState_Stale(st, ok) == st

\* get_saved_state
GetSavedState(st, ok) == IF ok THEN st ELSE None

\* faulty variant: the removal never takes effect
ClearSavedState_Noop(st, ok) == st

\* clear_saved_state
ClearSavedState(st, ok) == IF ok THEN None ELSE st

(* --------------------------- token exchange ---------------------------- *)
\* What send().await may yield for the POST to /auth/google: nothing (the
\* request could not be sent or received), or a response with a status.
ExchangeResponses ==
    { [sent |-> FALSE, status |-> 0] } \cup
    { [sent |-> TRUE, status |-> s] : s \in {200, 401} }

\* What the body of a response may be.  A body decodes to AuthResponse iff it
\* has both fields.
Body1 == [token |-> Some("t1"), user |-> Some(User1)]
Body2 == [token |-> Some("t2"), user |-> Some(User2)]
BodyNoUser == [token |-> Some("t1"), user |-> None]
BodyEmpty == [token |-> None, user |-> None]

ExchangeBodies == {Body1, Body2, BodyNoUser}

\* Response::ok
ResponseOk(resp) == resp.status >= 200 /\ resp.status <= 299

\* response.json::<AuthResponse>()
DecodeAuthResponse(body) ==
    IF body.token # None /\ body.user # None
    THEN Some([token |-> body.token[1], user |-> body.user[1]])
    ELSE None

\* faulty variant: the status of the response is not looked at
ExchangeAfterSend_AnyStatus(resp) ==
    IF ~resp.sent THEN Some(<<"Err", "Failed to send request">>) ELSE None

\* exchange_code_for_token from the end of send().await to its next suspend
\* point: Some(<<"Err", e>>) if it returns here, None if it goes on to
\* response.json().await.
\* ("Failed to create request" needs the serialisation of AuthRequest, a
\* struct of one String, to fail, which it cannot.  The text of the
\* underlying error, which the code appends to "Failed to send request" and
\* "Failed to parse response", is left out.)
ExchangeAfterSend(resp) ==
    IF ~resp.sent THEN Some(<<"Err", "Failed to send request">>)
    ELSE IF ~ResponseOk(resp)
         THEN Some(<<"Err", "Authentication failed: " \o ToString(resp.status)>>)
    ELSE None

\* faulty variant: an undecodable body is reported as a failure to send
ExchangeAfterJson_SameMessage(body) ==
    IF DecodeAuthResponse(body) = None
    THEN <<"Err", "Failed to send request">>
    ELSE <<"Ok", DecodeAuthResponse(body)[1]>>

\* exchange_code_for_token from the end of response.json().await on:
\* <<"Ok", v>> or <<"Err", e>>
ExchangeAfterJson(body) ==
    IF DecodeAuthResponse(body) = None
    THEN <<"Err", "Failed to parse response">>
    ELSE <<"Ok", DecodeAuthResponse(body)[1]>>

\* exchange_code_for_token as a whole, for a response and the body that is
\* read from it
ExchangeCodeForToken(resp, body) ==
    IF ExchangeAfterSend(resp) # None
    THEN ExchangeAfterSend(resp)[1]
    ELSE ExchangeAfterJson(body)

(* ------------------------------- state --------------------------------- *)
VARIABLES
    url,          \* url[t]: window.location of tab t
    pc,           \* pc[t]: "unmounted" (page loaded, mount effect not yet run),
                  \*   "idle", "spawned" (exchange task queued), "awaiting"
                  \*   (exchange request in flight), "responded" (send()
                  \*   complete, task not yet resumed), "reading" (task
                  \*   suspended in response.json()), "read" (body complete,
                  \*   task not yet resumed), "away" (at the provider)
    app_state,    \* app_state[t]: the AppState cell
    auth_state,   \* auth_state[t]: the AuthState cell
    messages,     \* messages[t]: the message list cell
    xcode,        \* xcode[t]: the code owned by the exchange task, if any
    xresp,        \* xresp[t]: the response the exchange task is resumed with
    xbody,        \* xbody[t]: the body the exchange task is resumed with
    inflight,     \* inflight[t]: the message tasks that have not finished,
                  \*   each with its request and its stage: "sent" (suspended
                  \*   in send()), "reading" (suspended in response.json())
    posts,        \* number of messages posted so far
    store,        \* localStorage["oauth_state"], shared by the tabs
    storageOk,    \* whether localStorage is usable
    nextNonce,    \* index of the next value of generate_state
    nextCode,     \* index of the code of the next callback
    \* history variables, written but never read by the actions
    validation,   \* validation[t]: what the mount pass of this page load
                  \*   compared: Some([saved, received]), None without callback
    storeOps,     \* storeOps[t]: storage calls made since the page was loaded
    loadExchanges,\* loadExchanges[t]: exchange requests sent since page load
    sentCount,    \* sentCount[c]: exchange requests ever sent with code c
    signedOut,    \* signedOut[t]: signed out, and no exchange succeeded since
    unsaved       \* nonces sent to the provider that save_state did not store

vars == <<url, pc, app_state, auth_state, messages, xcode, xresp, xbody, inflight,
          posts, store, storageOk, nextNonce, nextCode, validation, storeOps,
          loadExchanges, sentCount, signedOut, unsaved>>

Codes == { Code(i) : i \in 1..MaxCodes }

\* the values generate_state has returned so far
IssuedNonces == { Nonce(i) : i \in 1..(nextNonce - 1) }

\* fn app: the cells as use_state creates them; nothing is stored yet
Init ==
    /\ url = [t \in Tabs |-> AppUrl(<<>>)]
    /\ pc = [t \in Tabs |-> "unmounted"]
    /\ app_state = [t \in Tabs |-> AppCheckingAuth]
    /\ auth_state = [t \in Tabs |-> AuthStateDefault]
    /\ messages = [t \in Tabs |-> <<>>]
    /\ xcode = [t \in Tabs |-> None]
    /\ xresp = [t \in Tabs |-> None]
    /\ xbody = [t \in Tabs |-> None]
    /\ inflight = [t \in Tabs |-> {}]
    /\ posts = 0
    /\ store = None
    /\ storageOk = TRUE
    /\ nextNonce = 1
    /\ nextCode = 1
    /\ validation = [t \in Tabs |-> None]
    /\ storeOps = [t \in Tabs |-> {}]
    /\ loadExchanges = [t \in Tabs |-> 0]
    /\ sentCount = [c \in Codes |-> 0]
    /\ signedOut = [t \in Tabs |-> FALSE]
    /\ unsaved = {}

(* ------------------------- the mount effect ---------------------------- *)
\* faulty variant: every received state is accepted
StateMatches_Always(saved_state, state) == TRUE

\* the comparison of the saved nonce with the received state
StateMatches(saved_state, state) == saved_state = state

\* faulty variant: the callback is validated but neither the nonce nor the query
\* string is dropped
ConsumeCallback_Nothing(st, ok, u) == [store |-> st, url |-> u]

\* faulty variant: the query string is stripped but the nonce is kept
ConsumeCallback_KeepNonce(st, ok, u) == [store |-> st, url |-> ClearUrlParams(u)]

\* the matching branch before the task is spawned: clear_saved_state, then
\* clear_url_params
ConsumeCallback(st, ok, u) ==
    [store |-> ClearSavedState(st, ok), url |-> ClearUrlParams(u)]

\* the branch taken when the saved nonce differs from the received state
OnStateMismatch == AppUnauthenticated

\* faulty variant: a callback without a saved nonce ends in the error screen
OnMissingSavedState_Failed == AppError("No saved state found")

\* the branch taken when no nonce is saved
OnMissingSavedState == AppUnauthenticated

\* faulty variant: a page without callback always shows the Authenticated screen
OnNoCallback_Always(auth) == AppAuthenticated

\* the branch taken when the location carries no callback
OnNoCallback(auth) ==
    IF IsAuthenticated(auth) THEN AppAuthenticated ELSE AppUnauthenticated

\* the second effect of fn app, run after a render in which app_state has
\* changed: the requests it sends
MessageLoadEffect(old_app, new_app, auth) ==
    IF new_app # old_app /\ new_app.tag = "Authenticated" /\ auth.token # None
    THEN { [kind |-> "fetch", token |-> auth.token[1], base |-> <<>>, n |-> 0,
             stage |-> "sent"] }
    ELSE {}

\* use_effect_with((), ...): runs once, after the first render of the page
Mount(t) ==
    /\ pc[t] = "unmounted"
    /\ url[t].site = "app"
    /\ LET cb == ParseOauthCallback(url[t])
           saved == GetSavedState(store, storageOk)
       IN  IF cb # None
           THEN /\ validation' = [validation EXCEPT ![t] =
                        Some([saved |-> saved, received |-> cb[1][2]])]
                /\ storeOps' = [storeOps EXCEPT ![t] =
                        IF saved # None /\ StateMatches(saved[1], cb[1][2])
                        THEN @ \cup {"get", "remove"} ELSE @ \cup {"get"}]
                /\ IF saved # None
                   THEN IF StateMatches(saved[1], cb[1][2])
                        THEN /\ store' = ConsumeCallback(store, storageOk, url[t]).store
                             /\ url' = [url EXCEPT ![t] =
                                    ConsumeCallback(store, storageOk, url[t]).url]
                             /\ pc' = [pc EXCEPT ![t] = "spawned"]
                             /\ xcode' = [xcode EXCEPT ![t] = Some(cb[1][1])]
                             /\ UNCHANGED <<app_state, inflight>>
                        ELSE /\ app_state' = [app_state EXCEPT ![t] = OnStateMismatch]
                             /\ inflight' = [inflight EXCEPT ![t] = @ \cup
                                    MessageLoadEffect(app_state[t], OnStateMismatch,
                                                      auth_state[t])]
                             /\ pc' = [pc EXCEPT ![t] = "idle"]
                             /\ UNCHANGED <<store, url, xcode>>
                   ELSE /\ app_state' = [app_state EXCEPT ![t] = OnMissingSavedState]
                        /\ inflight' = [inflight EXCEPT ![t] = @ \cup
                               MessageLoadEffect(app_state[t], OnMissingSavedState,
                                                 auth_state[t])]
                        /\ pc' = [pc EXCEPT ![t] = "idle"]
                        /\ UNCHANGED <<store, url, xcode>>
           ELSE /\ app_state' = [app_state EXCEPT ![t] = OnNoCallback(auth_state[t])]
                /\ inflight' = [inflight EXCEPT ![t] = @ \cup
                       MessageLoadEffect(app_state[t], OnNoCallback(auth_state[t]),
                                         auth_state[t])]
                /\ pc' = [pc EXCEPT ![t] = "idle"]
                /\ UNCHANGED <<store, url, xcode, validation, storeOps>>
    /\ UNCHANGED <<auth_state, messages, xresp, xbody, posts, storageOk, unsaved, nextNonce,
                   nextCode, loadExchanges, sentCount, signedOut>>

(* ------------------------- the exchange task --------------------------- *)
\* the spawned task up to its first suspend point: app_state.set(Loading),
\* then the POST of exchange_code_for_token is sent
ExchangeTaskStart(t) ==
    /\ pc[t] = "spawned"
    /\ app_state' = [app_state EXCEPT ![t] = AppLoading]
    /\ pc' = [pc EXCEPT ![t] = "awaiting"]
    /\ loadExchanges' = [loadExchanges EXCEPT ![t] = @ + 1]
    /\ sentCount' = [sentCount EXCEPT ![xcode[t][1]] = @ + 1]
    /\ UNCHANGED <<url, auth_state, messages, xcode, xresp, xbody, inflight, posts,
                   store, storageOk, unsaved, nextNonce, nextCode, validation, storeOps,
                   signedOut>>

\* the transport completes send(): the response has arrived, or the request
\* has failed
ExchangeTransport(t, resp) ==
    /\ pc[t] = "awaiting"
    /\ xresp' = [xresp EXCEPT ![t] = Some(resp)]
    /\ pc' = [pc EXCEPT ![t] = "responded"]
    /\ UNCHANGED <<url, app_state, auth_state, messages, xcode, xbody, inflight,
                   posts, store, storageOk, unsaved, nextNonce, nextCode,
                   validation, storeOps, loadExchanges, sentCount, signedOut>>

\* the transport completes response.json(): the body has been read
ExchangeBody(t, body) ==
    /\ pc[t] = "reading"
    /\ xbody' = [xbody EXCEPT ![t] = Some(body)]
    /\ pc' = [pc EXCEPT ![t] = "read"]
    /\ UNCHANGED <<url, app_state, auth_state, messages, xcode, xresp, inflight,
                   posts, store, storageOk, unsaved, nextNonce, nextCode,
                   validation, storeOps, loadExchanges, sentCount, signedOut>>

\* faulty variant: the profile of the response is dropped
OnExchangeResult_NoUser(auth, result) ==
    IF result[1] = "Ok"
    THEN [auth |-> [token |-> Some(result[2].token), user |-> None],
          app |-> AppAuthenticated]
    ELSE [auth |-> auth, app |-> AppError(result[2])]

\* faulty variant: a failed exchange leaves the phase as it is
OnExchangeResult_SilentError(auth, result) ==
    IF result[1] = "Ok"
    THEN [auth |-> [token |-> Some(result[2].token), user |-> Some(result[2].user)],
          app |-> AppAuthenticated]
    ELSE [auth |-> auth, app |-> AppLoading]

\* faulty variant: a successful exchange changes the phase and stores no session
OnExchangeResult_PhaseOnly(auth, result) ==
    IF result[1] = "Ok"
    THEN [auth |-> auth, app |-> AppAuthenticated]
    ELSE [auth |-> auth, app |-> AppError(result[2])]

\* the match on the result of exchange_code_for_token: the cells it sets
OnExchangeResult(auth, result) ==
    IF result[1] = "Ok"
    THEN [auth |-> [token |-> Some(result[2].token), user |-> Some(result[2].user)],
          app |-> AppAuthenticated]
    ELSE [auth |-> auth, app |-> AppError(result[2])]

\* the match on the result, in the task of tab t
ExchangeTaskMatch(t, result) ==
    LET out == OnExchangeResult(auth_state[t], result)
    IN  /\ auth_state' = [auth_state EXCEPT ![t] = out.auth]
        /\ app_state' = [app_state EXCEPT ![t] = out.app]
        /\ inflight' = [inflight EXCEPT ![t] = @ \cup
               MessageLoadEffect(app_state[t], out.app, out.auth)]
        /\ signedOut' = [signedOut EXCEPT ![t] = @ /\ result[1] # "Ok"]

\* faulty variant: a failed exchange is sent again
ExchangeTaskResume_Retry(t) ==
    /\ pc[t] = "responded"
    /\ IF ExchangeAfterSend(xresp[t][1]) = None
       THEN /\ pc' = [pc EXCEPT ![t] = "reading"]
            /\ UNCHANGED <<auth_state, app_state, inflight, signedOut, xcode, xresp>>
       ELSE /\ ExchangeTaskMatch(t, ExchangeAfterSend(xresp[t][1])[1])
            /\ pc' = [pc EXCEPT ![t] = "spawned"]
            /\ xresp' = [xresp EXCEPT ![t] = None]
            /\ UNCHANGED xcode
    /\ UNCHANGED <<url, messages, xbody, posts, store, storageOk, unsaved,
                   nextNonce, nextCode, validation, storeOps, loadExchanges,
                   sentCount>>

\* the task resumed from send().await: it returns the error of a failed
\* request or of a non-2xx status to the match, or suspends again in
\* response.json().await
ExchangeTaskResume(t) ==
    /\ pc[t] = "responded"
    /\ IF ExchangeAfterSend(xresp[t][1]) = None
       THEN /\ pc' = [pc EXCEPT ![t] = "reading"]
            /\ UNCHANGED <<auth_state, app_state, inflight, signedOut, xcode, xresp>>
       ELSE /\ ExchangeTaskMatch(t, ExchangeAfterSend(xresp[t][1])[1])
            /\ pc' = [pc EXCEPT ![t] = "idle"]
            /\ xcode' = [xcode EXCEPT ![t] = None]
            /\ xresp' = [xresp EXCEPT ![t] = None]
    /\ UNCHANGED <<url, messages, xbody, posts, store, storageOk, unsaved,
                   nextNonce, nextCode, validation, storeOps, loadExchanges,
                   sentCount>>

\* the task resumed from response.json().await: the match on the result
ExchangeTaskFinish(t) ==
    /\ pc[t] = "read"
    /\ ExchangeTaskMatch(t, ExchangeAfterJson(xbody[t][1]))
    /\ pc' = [pc EXCEPT ![t] = "idle"]
    /\ xcode' = [xcode EXCEPT ![t] = None]
    /\ xresp' = [xresp EXCEPT ![t] = None]
    /\ xbody' = [xbody EXCEPT ![t] = None]
    /\ UNCHANGED <<url, messages, posts, store, storageOk, unsaved, nextNonce,
                   nextCode, validation, storeOps, loadExchanges, sentCount>>

(* ----------------------------- page loads ------------------------------ *)
\* faulty variant: the session survives the page load
LoadPage_KeepSession(t, u, p) ==
    /\ url' = [url EXCEPT ![t] = u]
    /\ pc' = [pc EXCEPT ![t] = p]
    /\ app_state' = [app_state EXCEPT ![t] = AppCheckingAuth]
    /\ auth_state' = auth_state
    /\ messages' = [messages EXCEPT ![t] = <<>>]
    /\ xcode' = [xcode EXCEPT ![t] = None]
    /\ xresp' = [xresp EXCEPT ![t] = None]
    /\ xbody' = [xbody EXCEPT ![t] = None]
    /\ inflight' = [inflight EXCEPT ![t] = {}]
    /\ validation' = [validation EXCEPT ![t] = None]
    /\ storeOps' = [storeOps EXCEPT ![t] = {}]
    /\ loadExchanges' = [loadExchanges EXCEPT ![t] = 0]

\* Tab t loads location u: the document of the page it showed is discarded
\* with its cells and its tasks, whose results are dropped.
LoadPage(t, u, p) ==
    /\ url' = [url EXCEPT ![t] = u]
    /\ pc' = [pc EXCEPT ![t] = p]
    /\ app_state' = [app_state EXCEPT ![t] = AppCheckingAuth]
    /\ auth_state' = [auth_state EXCEPT ![t] = AuthStateDefault]
    /\ messages' = [messages EXCEPT ![t] = <<>>]
    /\ xcode' = [xcode EXCEPT ![t] = None]
    /\ xresp' = [xresp EXCEPT ![t] = None]
    /\ xbody' = [xbody EXCEPT ![t] = None]
    /\ inflight' = [inflight EXCEPT ![t] = {}]
    /\ validation' = [validation EXCEPT ![t] = None]
    /\ storeOps' = [storeOps EXCEPT ![t] = {}]
    /\ loadExchanges' = [loadExchanges EXCEPT ![t] = 0]

\* the redirect URI with the callback parameters the provider appends
CallbackUrl(code, state) == AppUrl(<< <<"code", code>>, <<"state", state>> >>)

(* --------------------------- user handlers ----------------------------- *)
\* on_login ("Sign in with Google", "Try Again"): initiate_oauth_flow
OnLogin(t) ==
    /\ pc[t] = "idle"
    /\ app_state[t].tag \in {"Unauthenticated", "Error"}
    /\ nextNonce <= MaxNonce
    /\ store' = SaveState(store, storageOk, Nonce(nextNonce))
    /\ nextNonce' = nextNonce + 1
    /\ unsaved' = IF SaveState(store, storageOk, Nonce(nextNonce)) = Some(Nonce(nextNonce))
                  THEN unsaved ELSE unsaved \cup {Nonce(nextNonce)}
    /\ LoadPage(t, AuthUrl(Nonce(nextNonce)), "away")
    /\ UNCHANGED <<posts, storageOk, nextCode, sentCount, signedOut>>

\* faulty variant: sign-out leaves the session in place
OnLogout_KeepSession(t) ==
    /\ app_state[t].tag = "Authenticated"
    /\ auth_state[t].user # None
    /\ app_state' = [app_state EXCEPT ![t] = AppUnauthenticated]
    /\ messages' = [messages EXCEPT ![t] = <<>>]
    /\ signedOut' = [signedOut EXCEPT ![t] = TRUE]
    /\ UNCHANGED <<url, pc, auth_state, xcode, xresp, xbody, inflight, posts, store,
                   storageOk, unsaved, nextNonce, nextCode, validation, storeOps,
                   loadExchanges, sentCount>>

\* on_logout ("Sign Out", rendered with the profile of an Authenticated page)
OnLogout(t) ==
    /\ app_state[t].tag = "Authenticated"
    /\ auth_state[t].user # None
    /\ auth_state' = [auth_state EXCEPT ![t] = AuthStateDefault]
    /\ app_state' = [app_state EXCEPT ![t] = AppUnauthenticated]
    /\ messages' = [messages EXCEPT ![t] = <<>>]
    /\ inflight' = [inflight EXCEPT ![t] = @ \cup
           MessageLoadEffect(app_state[t], AppUnauthenticated, AuthStateDefault)]
    /\ signedOut' = [signedOut EXCEPT ![t] = TRUE]
    /\ UNCHANGED <<url, pc, xcode, xresp, xbody, posts, store, storageOk, unsaved, nextNonce,
                   nextCode, validation, storeOps, loadExchanges, sentCount>>

\* on_send_message with a non-empty content (the form of an Authenticated page)
OnSendMessage(t) ==
    /\ app_state[t].tag = "Authenticated"
    /\ posts < MaxPosts
    /\ IF auth_state[t].token # None /\ auth_state[t].user # None
       THEN /\ inflight' = [inflight EXCEPT ![t] = @ \cup
                   { [kind |-> "post", token |-> auth_state[t].token[1],
                      base |-> messages[t], n |-> posts + 1,
                      stage |-> "sent"] }]
            /\ posts' = posts + 1
       ELSE UNCHANGED <<inflight, posts>>
    /\ UNCHANGED <<url, pc, app_state, auth_state, messages, xcode, xresp, xbody, store,
                   storageOk, unsaved, nextNonce, nextCode, validation, storeOps,
                   loadExchanges, sentCount, signedOut>>

(* --------------------------- message tasks ----------------------------- *)
\* what response.json() may produce for GET /messages: None (the body could
\* not be read or is no Vec<Message>), or the list
FetchReplies == {None, Some(<<>>), Some(<<"m1">>)}

\* what response.json() may produce for POST /messages: None, or the stored
\* message
PostReplies == {None, Some("m2")}

\* the task of the message request r resumed from send().await: with a
\* failed request (~ok) it logs the error and ends, with a response
\* (whatever its status) it suspends again in response.json().await
MessageTaskResume(t, r, ok) ==
    /\ r \in inflight[t]
    /\ r.stage = "sent"
    /\ inflight' = [inflight EXCEPT ![t] =
           IF ok THEN (@ \ {r}) \cup { [r EXCEPT !.stage = "reading"] }
           ELSE @ \ {r}]
    /\ UNCHANGED <<url, pc, app_state, auth_state, messages, xcode, xresp, xbody,
                   posts, store, storageOk, unsaved, nextNonce, nextCode,
                   validation, storeOps, loadExchanges, sentCount, signedOut>>

\* the fetch task of the message-load effect resumed from
\* response.json().await
FetchResponse(t, r, reply) ==
    /\ r \in inflight[t]
    /\ r.kind = "fetch"
    /\ r.stage = "reading"
    /\ inflight' = [inflight EXCEPT ![t] = @ \ {r}]
    /\ messages' = [messages EXCEPT ![t] = IF reply # None THEN reply[1] ELSE @]
    /\ UNCHANGED <<url, pc, app_state, auth_state, xcode, xresp, xbody, posts,
                   store, storageOk, unsaved, nextNonce, nextCode, validation,
                   storeOps, loadExchanges, sentCount, signedOut>>

\* the post task of on_send_message resumed from response.json().await; base
\* is the list its messages handle holds
PostResponse(t, r, reply) ==
    /\ r \in inflight[t]
    /\ r.kind = "post"
    /\ r.stage = "reading"
    /\ inflight' = [inflight EXCEPT ![t] = @ \ {r}]
    /\ messages' = [messages EXCEPT ![t] =
           IF reply # None THEN <<reply[1]>> \o r.base ELSE @]
    /\ UNCHANGED <<url, pc, app_state, auth_state, xcode, xresp, xbody, posts,
                   store, storageOk, unsaved, nextNonce, nextCode, validation,
                   storeOps, loadExchanges, sentCount, signedOut>>

(* ----------------------------- environment ----------------------------- *)
\* the provider redirects back with a code of its own and the state it was
\* given
ProviderRedirect(t) ==
    /\ pc[t] = "away"
    /\ nextCode <= MaxCodes
    /\ LoadPage(t, CallbackUrl(Code(nextCode), ParamGet(url[t].query, "state")[1]),
                "unmounted")
    /\ nextCode' = nextCode + 1
    /\ UNCHANGED <<posts, store, storageOk, unsaved, nextNonce, sentCount, signedOut>>

\* the provider redirects back without a code (consent denied)
ProviderDenied(t) ==
    /\ pc[t] = "away"
    /\ LoadPage(t, AppUrl(<< <<"error", "access_denied">>,
                             <<"state", ParamGet(url[t].query, "state")[1]>> >>),
                "unmounted")
    /\ UNCHANGED <<posts, store, storageOk, unsaved, nextNonce, nextCode, sentCount,
                   signedOut>>

\* a callback that answers no pending login of the tab: a forged link, or
\* the late answer to an earlier initiation
StrayCallback(t, state) ==
    /\ url[t].site = "app"
    /\ nextCode <= MaxCodes
    /\ state \in {Bogus} \cup IssuedNonces
    /\ LoadPage(t, CallbackUrl(Code(nextCode), state), "unmounted")
    /\ nextCode' = nextCode + 1
    /\ UNCHANGED <<posts, store, storageOk, unsaved, nextNonce, sentCount, signedOut>>

\* a link to the redirect URI that carries a code and no state
CodeOnlyLink(t) ==
    /\ url[t].site = "app"
    /\ LoadPage(t, AppUrl(<< <<"code", Code(0)>> >>), "unmounted")
    /\ UNCHANGED <<posts, store, storageOk, unsaved, nextNonce, nextCode, sentCount,
                   signedOut>>

\* the user reloads the page
Reload(t) ==
    /\ url[t].site = "app"
    /\ LoadPage(t, url[t], "unmounted")
    /\ UNCHANGED <<posts, store, storageOk, unsaved, nextNonce, nextCode, sentCount,
                   signedOut>>

\* the user duplicates tab t into tab u
DuplicateTab(t, u) ==
    /\ t # u
    /\ url[t].site = "app"
    /\ LoadPage(u, url[t], "unmounted")
    /\ UNCHANGED <<posts, store, storageOk, unsaved, nextNonce, nextCode, sentCount,
                   signedOut>>

(* ---------------------------- specification ---------------------------- *)
Next ==
    \/ \E t \in Tabs : Mount(t)
    \/ \E t \in Tabs : ExchangeTaskStart(t)
    \/ \E t \in Tabs : \E resp \in ExchangeResponses : ExchangeTransport(t, resp)
    \/ \E t \in Tabs : ExchangeTaskResume(t)
    \/ \E t \in Tabs : \E body \in ExchangeBodies : ExchangeBody(t, body)
    \/ \E t \in Tabs : ExchangeTaskFinish(t)
    \/ \E t \in Tabs : OnLogin(t)
    \/ \E t \in Tabs : OnLogout(t)
    \/ \E t \in Tabs : OnSendMessage(t)
    \/ \E t \in Tabs : \E r \in inflight[t] : \E ok \in BOOLEAN :
           MessageTaskResume(t, r, ok)
    \/ \E t \in Tabs : \E r \in inflight[t] : \E reply \in FetchReplies :
           FetchResponse(t, r, reply)
    \/ \E t \in Tabs : \E r \in inflight[t] : \E reply \in PostReplies :
           PostResponse(t, r, reply)
    \/ \E t \in Tabs : ProviderRedirect(t)
    \/ \E t \in Tabs : ProviderDenied(t)
    \/ \E t \in Tabs : \E state \in {Bogus} \cup IssuedNonces : StrayCallback(t, state)
    \/ \E t \in Tabs : CodeOnlyLink(t)
    \/ \E t \in Tabs : Reload(t)
    \/ \E t, u \in Tabs : DuplicateTab(t, u)

Spec == Init /\ [][Next]_vars

\* localStorage becomes unusable (window.local_storage() fails or yields
\* nothing, or the call on it fails) or usable again
StorageFault ==
    /\ storageOk' = ~storageOk
    /\ UNCHANGED <<url, pc, app_state, auth_state, messages, xcode, xresp, xbody,
                   inflight, posts, store, nextNonce, nextCode, validation,
                   storeOps, loadExchanges, sentCount, signedOut, unsaved>>

NextStorage == Next \/ StorageFault

\* the program in a browser whose storage may fail at any time
SpecStorage == Init /\ [][NextStorage]_vars

\* the program with its scheduling: the effect runs after the first render,
\* a spawned task is polled, the transport completes every send() (with a
\* response or an error) and every read of a body, and each wakes the task
SpecLive ==
    /\ Spec
    /\ \A t \in Tabs :
           /\ WF_vars(Mount(t))
           /\ WF_vars(ExchangeTaskStart(t))
           /\ WF_vars(\E resp \in ExchangeResponses : ExchangeTransport(t, resp))
           /\ WF_vars(ExchangeTaskResume(t))
           /\ WF_vars(\E body \in ExchangeBodies : ExchangeBody(t, body))
           /\ WF_vars(ExchangeTaskFinish(t))

(* ------------------------------ properties ----------------------------- *)
\* the step of tab t is its mount pass
MountStep(t) == pc[t] = "unmounted" /\ pc'[t] \in {"idle", "spawned"}

\* the step of tab t in which its exchange task ends with a result: resumed
\* from send().await with an error, or resumed from response.json().await
ResumeStep(t) == pc[t] \in {"responded", "read"} /\ pc'[t] = "idle"

\* what the exchange task of tab t has received: the response and, once read,
\* its body
Answer(t) ==
    [sent |-> xresp[t][1].sent, status |-> xresp[t][1].status,
     body |-> IF xbody[t] # None THEN xbody[t][1] ELSE BodyEmpty]

\* the mount pass of the page tab t shows found a callback and a saved nonce
\* that differs from the received state
Mismatched(t) ==
    /\ validation[t] # None
    /\ validation[t][1].saved # None
    /\ validation[t][1].saved[1] # validation[t][1].received

\* the mount pass of the page tab t shows found a callback and no saved nonce
MissingSaved(t) ==
    /\ validation[t] # None
    /\ validation[t][1].saved = None

\* the response makes the exchange succeed: 2xx, decodable to {token, user}
GoodResponse(resp) ==
    /\ resp.sent
    /\ resp.status \in 200..299
    /\ resp.body.token # None
    /\ resp.body.user # None

\* C1: a page whose mount pass found a saved nonce different from the
\* received state shows Unauthenticated and has sent no exchange request;
\* and a page has sent an exchange request (or has one spawned) only if its
\* mount pass found a saved nonce equal to the received state.
C1_ExchangeOnlyOnMatch ==
    \A t \in Tabs :
        /\ Mismatched(t) =>
               /\ app_state[t] = AppUnauthenticated
               /\ loadExchanges[t] = 0
               /\ pc[t] = "idle"
        /\ (loadExchanges[t] > 0 \/ pc[t] \in {"spawned", "awaiting", "responded", "reading", "read"}) =>
               /\ validation[t] # None
               /\ validation[t][1].saved = Some(validation[t][1].received)

C1_Witness ==
    \E t, u \in Tabs :
        /\ Mismatched(t)
        /\ pc[t] = "idle"
        /\ loadExchanges[u] > 0

\* C2: a page whose mount pass found a callback while no nonce was saved
\* shows Unauthenticated (not Error) and has sent no exchange request.
C2_MissingNonceResets ==
    \A t \in Tabs :
        MissingSaved(t) =>
            /\ app_state[t] = AppUnauthenticated
            /\ loadExchanges[t] = 0
            /\ pc[t] = "idle"

C2_Witness ==
    \E t \in Tabs :
        /\ MissingSaved(t)
        /\ store = None
        /\ pc[t] = "idle"

\* C3: when the exchange task ends with a 2xx response whose body decodes to
\* {token, user}, the phase becomes Authenticated, the session token is the
\* returned token and the session profile equals the returned one field by
\* field.
C3_SuccessPopulatesSession ==
    [][\A t \in Tabs :
          (ResumeStep(t) /\ GoodResponse(Answer(t))) =>
              /\ app_state'[t] = AppAuthenticated
              /\ auth_state'[t].token = Some(Answer(t).body.token[1])
              /\ auth_state'[t].user # None
              /\ auth_state'[t].user[1].id = Answer(t).body.user[1].id
              /\ auth_state'[t].user[1].google_id = Answer(t).body.user[1].google_id
              /\ auth_state'[t].user[1].email = Answer(t).body.user[1].email
              /\ auth_state'[t].user[1].name = Answer(t).body.user[1].name]_vars

C3_Witness ==
    \E t \in Tabs :
        /\ app_state[t] = AppAuthenticated
        /\ auth_state[t].token = Some("t1")
        /\ auth_state[t].user = Some(User1)
        /\ loadExchanges[t] = 1

\* C4: when the exchange task ends with a failure (nothing received, a
\* non-2xx status, or an undecodable body), the phase becomes Error with the
\* message of the failure and the session is left as it was, empty; no page
\* in the Error phase has a token or a user.
C4_FailureLeavesSessionEmpty ==
    /\ [][\A t \in Tabs :
             (ResumeStep(t) /\ ~GoodResponse(Answer(t))) =>
                 /\ app_state'[t].tag = "Error"
                 /\ app_state'[t].msg = ExchangeCodeForToken(xresp[t][1], Answer(t).body)[2]
                 /\ app_state'[t].msg # ""
                 /\ auth_state'[t] = auth_state[t]
                 /\ auth_state'[t] = AuthStateDefault]_vars
    /\ [](\A t \in Tabs :
             app_state[t].tag = "Error" => auth_state[t] = AuthStateDefault)

C4_Witness ==
    \E t \in Tabs :
        /\ app_state[t] = AppError("Authentication failed: 401")
        /\ auth_state[t] = AuthStateDefault
        /\ loadExchanges[t] = 1

\* the message requests tab t sends in the step
NewRequests(t) == { r \in inflight'[t] : r.stage = "sent" } \ inflight[t]

\* C5: sign-out empties the session and sets the phase to Unauthenticated,
\* and a tab that has signed out sends no message request (fetch or post)
\* before an exchange has succeeded in it again.
C5_SignOutStopsRequests ==
    [][\A t \in Tabs :
          /\ (~signedOut[t] /\ signedOut'[t]) =>
                 /\ app_state[t] = AppAuthenticated
                 /\ auth_state'[t] = AuthStateDefault
                 /\ app_state'[t] = AppUnauthenticated
          /\ (NewRequests(t) # {}) =>
                 /\ ~signedOut'[t]
                 /\ auth_state'[t].token # None
                 /\ \A r \in NewRequests(t) :
                        Some(r.token) = auth_state'[t].token]_vars

C5_Witness ==
    \E t \in Tabs :
        /\ signedOut[t]
        /\ app_state[t] = AppUnauthenticated
        /\ auth_state[t] = AuthStateDefault
        /\ inflight[t] # {}

\* C6: once the mount pass of a page has compared the state of a callback
\* with the saved nonce, whether they matched or not, the location of the
\* page carries no query string and the callback parser finds nothing in it.
C6_UrlCleanAfterCallback ==
    \A t \in Tabs :
        (validation[t] # None /\ validation[t][1].saved # None /\ pc[t] # "unmounted") =>
            /\ url[t].query = <<>>
            /\ ParseOauthCallback(url[t]) = None

\* C7: whenever a mount pass compares a received state with a saved nonce,
\* the reserved key is absent when the pass is over.
C7_NonceConsumedOnCompare ==
    [][\A t \in Tabs :
          (MountStep(t) /\ validation'[t] # None /\ validation'[t][1].saved # None)
              => store' = None]_vars

\* the last value generate_state has returned
LatestNonce == Nonce(nextNonce - 1)

\* C8: the store holds nothing or the nonce of the most recent initiation;
\* an initiation leaves in the store exactly the nonce it sends to the
\* provider; and the mount pass of a callback that carries the nonce of an
\* earlier initiation ends in Unauthenticated without spawning an exchange.
C8_OneLiveNonce ==
    /\ [](store = None \/ (nextNonce > 1 /\ store = Some(LatestNonce)))
    /\ [][\A t \in Tabs :
             (pc[t] = "idle" /\ pc'[t] = "away") =>
                 /\ store' # None
                 /\ store' = ParamGet(url'[t].query, "state")
                 /\ store'[1] \notin IssuedNonces]_vars
    /\ [][\A t \in Tabs :
             ( /\ MountStep(t)
               /\ ParseOauthCallback(url[t]) # None
               /\ ParseOauthCallback(url[t])[1][2] \in IssuedNonces \ {LatestNonce} )
                 => /\ pc'[t] = "idle"
                    /\ app_state'[t] = AppUnauthenticated
                    /\ loadExchanges'[t] = 0]_vars

C8_Witness ==
    \E t \in Tabs :
        /\ Mismatched(t)
        /\ validation[t][1].received \in IssuedNonces
        /\ validation[t][1].saved = Some(LatestNonce)
        /\ app_state[t] = AppUnauthenticated

\* C9: a mount pass that finds no callback in the location sets the phase to
\* Authenticated if the session has a token and to Unauthenticated otherwise,
\* makes no storage call, leaves the store as it is and sends no exchange
\* request, neither in that step nor later in the page load.
C9_NoCallbackMount ==
    /\ [][\A t \in Tabs :
             (MountStep(t) /\ ParseOauthCallback(url[t]) = None) =>
                 /\ app_state'[t] = IF auth_state[t].token # None
                                    THEN AppAuthenticated ELSE AppUnauthenticated
                 /\ pc'[t] = "idle"
                 /\ store' = store
                 /\ storeOps'[t] = {}
                 /\ sentCount' = sentCount]_vars
    /\ [](\A t \in Tabs :
             (pc[t] \notin {"unmounted", "away"} /\ validation[t] = None) =>
                 /\ loadExchanges[t] = 0
                 /\ pc[t] = "idle")

C9_Witness ==
    \E t \in Tabs :
        /\ pc[t] = "idle"
        /\ validation[t] = None
        /\ url[t].query # <<>>
        /\ store # None
        /\ app_state[t] = AppUnauthenticated

\* C10: no authorization code is sent to the exchange endpoint twice,
\* whatever the logins, redirects, reloads and duplicated tabs.
C10_CodeSentAtMostOnce == \A c \in Codes : sentCount[c] <= 1

C10_Witness ==
    \E t \in Tabs : \E c \in Codes :
        /\ sentCount[c] = 1
        /\ pc[t] = "idle"
        /\ loadExchanges[t] = 0
        /\ ParseOauthCallback(url[t]) # None
        /\ ParseOauthCallback(url[t])[1][1] = c

\* the failure kind of a response with its body, by the order of the checks:
\* "network", "server", "decode", or "ok"
ResponseKind(resp, body) ==
    IF ~resp.sent THEN "network"
    ELSE IF resp.status \notin 200..299 THEN "server"
    ELSE IF body.token = None \/ body.user = None THEN "decode"
    ELSE "ok"

\* C11: for the response a task holds and the body it has read, the result
\* of the exchange is a network error if nothing was received, else an
\* auth-server error with the status if the status is not 2xx (no body is
\* read), else a decode error if the body lacks a field, else success with
\* the decoded body; results of different kinds differ; and the task ends
\* with exactly that result.
C11_ExchangeClassification ==
    /\ [](\A t \in Tabs :
             xresp[t] # None =>
                 LET resp == xresp[t][1]
                     body == Answer(t).body
                     res == ExchangeCodeForToken(resp, body)
                 IN  /\ ResponseKind(resp, body) = "network" =>
                            /\ res = <<"Err", "Failed to send request">>
                            /\ ExchangeAfterSend(resp) = Some(res)
                     /\ ResponseKind(resp, body) = "server" =>
                            /\ res = <<"Err", "Authentication failed: "
                                                  \o ToString(resp.status)>>
                            /\ ExchangeAfterSend(resp) = Some(res)
                     /\ ResponseKind(resp, body) \in {"network", "server"} =>
                            /\ xbody[t] = None
                            /\ pc[t] = "responded"
                     /\ ResponseKind(resp, body) \in {"decode", "ok"} =>
                            ExchangeAfterSend(resp) = None
                     /\ (xbody[t] # None /\ ResponseKind(resp, body) = "decode") =>
                            res = <<"Err", "Failed to parse response">>
                     /\ ResponseKind(resp, body) = "ok" =>
                            /\ res[1] = "Ok"
                            /\ res[2].token = body.token[1]
                            /\ res[2].user = body.user[1]
                     /\ \A u \in Tabs :
                            ( /\ xresp[u] # None
                              /\ xbody[t] # None \/ ExchangeAfterSend(resp) # None
                              /\ xbody[u] # None \/ ExchangeAfterSend(xresp[u][1]) # None
                              /\ ResponseKind(xresp[u][1], Answer(u).body)
                                     # ResponseKind(resp, body) ) =>
                                ExchangeCodeForToken(xresp[u][1], Answer(u).body) # res)
    /\ [][\A t \in Tabs :
             ResumeStep(t) =>
                 LET res == ExchangeCodeForToken(xresp[t][1], Answer(t).body)
                 IN  /\ ResponseKind(xresp[t][1], Answer(t).body) # "ok" =>
                            app_state'[t] = AppError(res[2])
                     /\ ResponseKind(xresp[t][1], Answer(t).body) = "ok" =>
                            app_state'[t] = AppAuthenticated]_vars

C11_Witness ==
    \E t, u \in Tabs :
        /\ pc[t] = "idle"
        /\ app_state[t] = AppError("Authentication failed: 401")
        /\ pc[u] = "idle"
        /\ app_state[u] = AppError("Failed to parse response")

\* C12: a page sends at most one exchange request; a page in the Error phase
\* sends none and stays as it is until the user starts a login or the page is
\* loaded anew; and a login started from the Error phase stores a nonce that
\* was never generated before, navigates to the provider with it and sends
\* no exchange request.
C12_NoAutomaticRetry ==
    /\ [](\A t \in Tabs : loadExchanges[t] <= 1)
    /\ [][\A t \in Tabs :
             app_state[t].tag = "Error" =>
                 /\ loadExchanges'[t] <= loadExchanges[t]
                 /\ \/ pc'[t] = pc[t] /\ app_state'[t] = app_state[t]
                    \/ pc'[t] \in {"away", "unmounted"}
                 /\ pc'[t] = "away" =>
                        /\ Nonce(nextNonce) \notin IssuedNonces
                        /\ nextNonce' = nextNonce + 1
                        /\ store' = Some(Nonce(nextNonce))
                        /\ url'[t] = AuthUrl(Nonce(nextNonce))
                        /\ sentCount' = sentCount]_vars

C12_Witness ==
    \E t \in Tabs :
        /\ app_state[t].tag = "Error"
        /\ loadExchanges[t] = 1
        /\ pc[t] = "idle"
        /\ store = None
        /\ nextNonce <= MaxNonce

\* C13: a mount pass that finds a callback while the storage is unusable
\* ends in Unauthenticated without an exchange and leaves the store alone; a
\* login started while the storage is unusable still navigates to the
\* provider, with a nonce that is not stored; and a page whose callback
\* carries such a nonce shows Unauthenticated and sends no exchange request.
C13_StorageFailureDegrades ==
    /\ [][\A t \in Tabs :
             /\ (MountStep(t) /\ ParseOauthCallback(url[t]) # None /\ ~storageOk) =>
                    /\ app_state'[t] = AppUnauthenticated
                    /\ pc'[t] = "idle"
                    /\ loadExchanges'[t] = 0
                    /\ store' = store
             /\ (pc[t] = "idle" /\ pc'[t] = "away" /\ ~storageOk) =>
                    /\ url'[t] = AuthUrl(Nonce(nextNonce))
                    /\ store' = store
                    /\ Nonce(nextNonce) \in unsaved']_vars
    /\ [](\A t \in Tabs :
             (validation[t] # None /\ validation[t][1].received \in unsaved) =>
                 /\ app_state[t] = AppUnauthenticated
                 /\ pc[t] = "idle"
                 /\ loadExchanges[t] = 0)

C13_Witness ==
    \E t, u \in Tabs :
        /\ validation[t] # None
        /\ validation[t][1].received \in unsaved
        /\ app_state[t] = AppUnauthenticated
        /\ validation[u] # None
        /\ validation[u][1].saved = None
        /\ store = Some(validation[u][1].received)
        /\ app_state[u] = AppUnauthenticated

\* the query string q has a parameter named k
HasParam(q, k) == \E i \in 1..Len(q) : q[i][1] = k

\* the value of the first parameter of q named k
FirstParam(q, k) ==
    q[CHOOSE i \in 1..Len(q) :
          q[i][1] = k /\ \A j \in 1..(i - 1) : q[j][1] # k][2]

\* C14: on the location of every page the callback parser yields none if
\* the query string is empty or lacks code or state, and the pair of their
\* values otherwise; and the mount pass of a location that lacks one of the
\* two makes no storage call, compares nothing, spawns no exchange and ends
\* in Unauthenticated.
C14_ParserNeedsBoth ==
    /\ [](\A t \in Tabs :
             LET q == url[t].query
             IN  IF q # <<>> /\ HasParam(q, "code") /\ HasParam(q, "state")
                 THEN ParseOauthCallback(url[t]) =
                          Some(<<FirstParam(q, "code"), FirstParam(q, "state")>>)
                 ELSE ParseOauthCallback(url[t]) = None)
    /\ [][\A t \in Tabs :
             (MountStep(t) /\ ~(HasParam(url[t].query, "code")
                                /\ HasParam(url[t].query, "state"))) =>
                 /\ storeOps'[t] = {}
                 /\ validation'[t] = None
                 /\ store' = store
                 /\ pc'[t] = "idle"
                 /\ app_state'[t] = AppUnauthenticated]_vars

C14_Witness ==
    \E t, u \in Tabs :
        /\ pc[t] = "idle"
        /\ HasParam(url[t].query, "code")
        /\ ~HasParam(url[t].query, "state")
        /\ pc[u] = "idle"
        /\ HasParam(url[u].query, "state")
        /\ ~HasParam(url[u].query, "code")
        /\ store # None

\* the exchange request of tab t is in flight
ExchangeInFlight(t) == pc[t] \in {"awaiting", "responded", "reading", "read"}

\* C15 as stated: whenever an exchange request is in flight the phase is
\* Loading, the reserved key is absent and the location has no query string.
C15_InFlightKeyAbsent ==
    \A t \in Tabs :
        ExchangeInFlight(t) =>
            /\ app_state[t] = AppLoading
            /\ store = None
            /\ url[t].query = <<>>

\* C15 amended: the matching mount pass deletes the nonce and strips the
\* query string while the phase is still CheckingAuth and nothing is sent;
\* the request is sent by the step that sets the phase to Loading; and
\* whenever an exchange request is in flight the phase is Loading, the
\* location has no query string and the store does not hold the nonce that
\* validated the callback.
C15_OrderOnMatch ==
    /\ [][\A t \in Tabs :
             /\ (MountStep(t) /\ pc'[t] = "spawned") =>
                    /\ store' = None
                    /\ url'[t].query = <<>>
                    /\ app_state'[t] = AppCheckingAuth
                    /\ loadExchanges'[t] = 0
                    /\ sentCount' = sentCount
             /\ loadExchanges'[t] > loadExchanges[t] =>
                    /\ pc[t] = "spawned"
                    /\ app_state[t] = AppCheckingAuth
                    /\ app_state'[t] = AppLoading
                    /\ url[t].query = <<>>
                    /\ store # Some(validation[t][1].received)]_vars
    /\ [](\A t \in Tabs :
             ExchangeInFlight(t) =>
                 /\ app_state[t] = AppLoading
                 /\ url[t].query = <<>>
                 /\ validation[t] # None
                 /\ store # Some(validation[t][1].received))

C15_Witness ==
    \E t \in Tabs :
        /\ pc[t] = "awaiting"
        /\ app_state[t] = AppLoading
        /\ store # None

\* the mount pass of this page load of tab t matched nonce r
MatchedNonce(t, r) ==
    /\ validation[t] # None
    /\ validation[t][1].received = r
    /\ validation[t][1].saved = Some(r)

\* C16: compare and delete are one step of one tab, so once the mount pass
\* of one tab has matched a nonce no other tab matches it: a mount pass in
\* another tab that receives the same state finds that nonce gone from the
\* store, sends nothing and ends in Unauthenticated.
C16_OverlappingCallbackRejected ==
    /\ [][\A t, u \in Tabs :
             ( /\ t # u
               /\ MountStep(u)
               /\ ParseOauthCallback(url[u]) # None
               /\ MatchedNonce(t, ParseOauthCallback(url[u])[1][2]) ) =>
                 /\ store # Some(ParseOauthCallback(url[u])[1][2])
                 /\ pc'[u] = "idle"
                 /\ app_state'[u] = AppUnauthenticated
                 /\ loadExchanges'[u] = 0
                 /\ sentCount' = sentCount
                 /\ store' = store]_vars
    /\ [](\A t, u \in Tabs : \A r \in IssuedNonces :
             (t # u /\ MatchedNonce(t, r)) => ~MatchedNonce(u, r))

C16_Witness ==
    \E t, u \in Tabs : \E c \in Codes :
        /\ t # u
        /\ validation[t] # None
        /\ MatchedNonce(t, validation[t][1].received)
        /\ loadExchanges[t] = 1
        /\ sentCount[c] = 1
        /\ pc[u] = "idle"
        /\ ParseOauthCallback(url[u]) = Some(<<c, validation[t][1].received>>)
        /\ validation[u] = Some([saved |-> None,
                                 received |-> validation[t][1].received])
        /\ app_state[u] = AppUnauthenticated
        /\ loadExchanges[u] = 0

\* C17: in every reachable state the token is present exactly when the
\* profile is, the phase Authenticated comes with a token, and in every other
\* phase the session is empty.
C17_SessionAllOrNothing ==
    \A t \in Tabs :
        /\ auth_state[t].token # None <=> auth_state[t].user # None
        /\ app_state[t].tag = "Authenticated" => auth_state[t].token # None
        /\ app_state[t].tag # "Authenticated" => auth_state[t] = AuthStateDefault

C17_Witness ==
    \E t, u \in Tabs :
        /\ app_state[t] = AppAuthenticated
        /\ auth_state[t].token # None
        /\ auth_state[t].user # None
        /\ signedOut[u]
        /\ app_state[u] = AppUnauthenticated
        /\ auth_state[u] = AuthStateDefault

\* C18: a page is created with an empty session; a mount pass that finds no
\* callback ends in Unauthenticated; the phase becomes Authenticated only in
\* the step that resumes the exchange task with a successful response; and a
\* page that shows Authenticated has, in this page load, matched the saved
\* nonce and sent one exchange request.
C18_AuthenticatedOnlyByExchange ==
    /\ [][\A t \in Tabs :
             /\ (pc'[t] = "unmounted" /\ (pc[t] # "unmounted" \/ url'[t] # url[t])) =>
                    /\ auth_state'[t] = AuthStateDefault
                    /\ app_state'[t] = AppCheckingAuth
             /\ (MountStep(t) /\ ParseOauthCallback(url[t]) = None) =>
                    app_state'[t] = AppUnauthenticated
             /\ (app_state'[t].tag = "Authenticated"
                   /\ app_state[t].tag # "Authenticated") =>
                    /\ ResumeStep(t)
                    /\ app_state[t] = AppLoading
                    /\ GoodResponse(Answer(t))]_vars
    /\ [](\A t \in Tabs :
             app_state[t].tag = "Authenticated" =>
                 /\ validation[t] # None
                 /\ validation[t][1].saved = Some(validation[t][1].received)
                 /\ loadExchanges[t] = 1
                 /\ pc[t] = "idle")
    /\ [](\A t \in Tabs : pc[t] = "unmounted" => auth_state[t] = AuthStateDefault)

C18_Witness ==
    \E t, u \in Tabs :
        /\ app_state[t] = AppAuthenticated
        /\ loadExchanges[t] = 1
        /\ pc[u] = "idle"
        /\ validation[u] = None
        /\ app_state[u] = AppUnauthenticated
        /\ \E c \in Codes : sentCount[c] = 1

\* C19: a mount pass that does not match (no callback, no saved nonce, a
\* different nonce) sets Unauthenticated in the mount step itself; a page in
\* CheckingAuth still has its mount pass or its spawned task ahead and
\* eventually leaves CheckingAuth; and a page in Loading has its exchange in
\* flight and eventually shows Authenticated or Error, unless the page is
\* discarded by a reload first.
C19_MountPassTerminates ==
    /\ [][\A t \in Tabs :
             (MountStep(t) /\ pc'[t] = "idle") =>
                 app_state'[t] = AppUnauthenticated]_vars
    /\ [](\A t \in Tabs :
             /\ app_state[t] = AppCheckingAuth =>
                    pc[t] \in {"unmounted", "spawned", "away"}
             /\ app_state[t] = AppLoading => ExchangeInFlight(t))
    /\ \A t \in Tabs :
           (app_state[t] = AppCheckingAuth /\ pc[t] # "away")
               ~> (app_state[t] # AppCheckingAuth)
    /\ \A t \in Tabs :
           (app_state[t] = AppLoading)
               ~> (app_state[t].tag \in {"Authenticated", "Error"}
                      \/ pc[t] = "unmounted")

C19_Witness ==
    \E t, u \in Tabs :
        /\ pc[t] = "idle"
        /\ app_state[t].tag = "Error"
        /\ loadExchanges[t] = 1
        /\ pc[u] = "idle"
        /\ Mismatched(u)
        /\ app_state[u] = AppUnauthenticated

\* C20: in a page that was signed out and has not become Authenticated
\* again, the message list is empty.
C20_ListEmptyAfterSignOut ==
    \A t \in Tabs :
        (signedOut[t] /\ app_state[t].tag # "Authenticated") => messages[t] = <<>>

====
